---- MODULE Spec2Model ----
(***************************************************************************)
(* Banking AI Assistant: the interactive conversation of src/app/main.py,  *)
(* the batch harness of test/test_executor.py, and the SQL extraction both *)
(* of them apply to the text the inference service returns.                *)
(*                                                                         *)
(* A Python str is modelled as a sequence of one-character strings, so     *)
(* that lower(), strip(), startswith(), replace(), the `in` test and the   *)
(* regular expression are computed character by character.                 *)
(***************************************************************************)
EXTENDS Integers, Sequences, FiniteSets, TLC

VARIABLES
    program,       \* which script runs: "app", "batch" or "extractor"
    messages,      \* st.session_state.messages: the turn log
    results,       \* st.session_state.results: the result log
    request,       \* the message list handed to llm.invoke in the last script run
    last,          \* what the last run of the input handler did and displayed
    pc,            \* position of test_executor.main
    test_cases,    \* rows of TestCases.xlsx
    test_results,  \* main's test_results list
    summary,       \* the dict generate_summary_stats returned last
    final,         \* the percentages main prints in its final assessment
    call,          \* the run_query call of the last step: what it opened, closed, returned
    text,          \* the response text under extraction, or of the last test case
    extracted      \* the outputs of successive applications of the extraction

vars == <<program, messages, results, request, last, pc, test_cases,
          test_results, summary, final, call, text, extracted>>

appVars == <<messages, results, request, last>>
batchVars == <<pc, test_cases, test_results, summary, final>>
extractorVars == <<text, extracted>>

----------------------------------------------------------------------------
(* Bounds of the model. *)

MaxInputs == 3
MaxCases == 2
MaxTokens == 5
MaxApplications == 2

----------------------------------------------------------------------------
(* Python str operations. *)

UpperLetters == <<"A","B","C","D","E","F","G","H","I","J","K","L","M",
                  "N","O","P","Q","R","S","T","U","V","W","X","Y","Z">>
LowerLetters == <<"a","b","c","d","e","f","g","h","i","j","k","l","m",
                  "n","o","p","q","r","s","t","u","v","w","x","y","z">>

LowerMap ==
    [c \in {UpperLetters[i] : i \in 1..26} |->
        LowerLetters[CHOOSE i \in 1..26 : UpperLetters[i] = c]]

LowerChar(c) == IF c \in DOMAIN LowerMap THEN LowerMap[c] ELSE c

\* str.lower()
Lower(s) == [i \in 1..Len(s) |-> LowerChar(s[i])]

\* the characters str.strip() removes (ASCII whitespace)
Whitespace == {" ", "\t", "\n", "\r", "\f"}

\* str.startswith(p)
StartsWith(s, p) == Len(s) >= Len(p) /\ SubSeq(s, 1, Len(p)) = p

\* str.endswith(p)
EndsWith(s, p) == Len(s) >= Len(p) /\ SubSeq(s, Len(s) - Len(p) + 1, Len(s)) = p

\* sub in s
Contains(s, sub) ==
    \E i \in 1..(Len(s) - Len(sub) + 1) : SubSeq(s, i, i + Len(sub) - 1) = sub

\* str.strip()
Strip(s) ==
    LET keep == {i \in 1..Len(s) : s[i] \notin Whitespace}
    IN IF keep = {} THEN <<>>
       ELSE LET lo == CHOOSE i \in keep : \A j \in keep : i <= j
                hi == CHOOSE i \in keep : \A j \in keep : j <= i
            IN SubSeq(s, lo, hi)

\* str.replace(old, ""): every non-overlapping occurrence, left to right
RECURSIVE Remove(_, _)
Remove(s, old) ==
    IF s = <<>> THEN <<>>
    ELSE IF StartsWith(s, old) THEN Remove(SubSeq(s, Len(old) + 1, Len(s)), old)
    ELSE <<Head(s)>> \o Remove(Tail(s), old)

----------------------------------------------------------------------------
(* SQL extraction: main.py 147-150, test_executor.py 142-145. *)

\* the pattern r'SELECT .*' under re.IGNORECASE: SELECT and one space
SelectPattern == <<"s","e","l","e","c","t"," ">>

\* re.search(r'SELECT .*', t, re.IGNORECASE | re.DOTALL): the start of the
\* leftmost match, 0 when there is none; with DOTALL the match runs to the
\* end of the text
SearchSelect(t) ==
    LET hits == {i \in 1..(Len(t) - 6) : Lower(SubSeq(t, i, i + 6)) = SelectPattern}
    IN IF hits = {} THEN 0 ELSE CHOOSE i \in hits : \A j \in hits : i <= j

\* line 150 without the test of line 149: the last character always goes
StripTerminatorUnguarded(sql) == SubSeq(sql, 1, Len(sql) - 1)

\* if sql.endswith(';'): sql = sql[:-1]
StripTerminator(sql) ==
    IF EndsWith(sql, <<";">>) THEN SubSeq(sql, 1, Len(sql) - 1) ELSE sql

\* line 148 without the two .strip() calls
CandidateUnstripped(t) ==
    LET i == SearchSelect(t)
    IN IF i > 0 THEN SubSeq(t, i, Len(t)) ELSE t

\* match.group(0).strip() if match else response.strip()
Candidate(t) ==
    LET i == SearchSelect(t)
    IN IF i > 0 THEN Strip(SubSeq(t, i, Len(t))) ELSE Strip(t)

\* lines 147-150: the statement the handler and the harness run
ExtractSql(t) == StripTerminator(Candidate(t))

----------------------------------------------------------------------------
(* The relational store and the inference service, as the code sees them. *)

\* Python's None and a value that is not None
None == <<>>
Some(v) == <<v>>

\* the sizes of the DataFrames the store returns
RowCounts == {0, 2}

\* what sqlite3.connect and pd.read_sql_query can do on one call: return a
\* DataFrame of n rows, or raise at connect, or raise at the statement
DbOutcomes ==
    {[kind |-> "rows", rows |-> n, reason |-> <<>>] : n \in RowCounts}
    \cup {[kind |-> "connect_error", rows |-> 0,
           reason |-> <<"u","n","a","b","l","e"," ","t","o"," ","o","p","e","n"," ",
                        "d","a","t","a","b","a","s","e"," ","f","i","l","e">>],
          [kind |-> "statement_error", rows |-> 0,
           reason |-> <<"n","o"," ","s","u","c","h"," ","t","a","b","l","e",":"," ","t">>]}

\* str(e) of the exception the store raises: sqlite3's own message at
\* connect, pandas' DatabaseError around the statement's
ExceptionText(query, db) ==
    IF db.kind = "connect_error" THEN db.reason
    ELSE <<"E","x","e","c","u","t","i","o","n"," ","f","a","i","l","e","d"," ",
           "o","n"," ","s","q","l"," ","'">> \o query \o <<"'",":"," ">> \o db.reason

NoCall ==
    [fn |-> "none", opened |-> FALSE, closed |-> FALSE, raised |-> FALSE,
     exc |-> <<>>, ret |-> None]

\* main.py run_query: connect, read_sql_query, close, return df; an
\* exception of connect or read_sql_query leaves the function at once
run_query(query, db) ==
    [fn |-> "main.run_query",
     opened |-> db.kind # "connect_error",
     closed |-> db.kind = "rows",
     raised |-> db.kind # "rows",
     exc |-> IF db.kind = "rows" THEN <<>> ELSE ExceptionText(query, db),
     ret |-> IF db.kind = "rows" THEN Some(db.rows) ELSE None]

\* texts the inference service returns
ResponseTexts ==
    { <<"C","L","A","R","I","F","I","C","A","T","I","O","N",":"," ",
        "w","h","i","c","h"," ","p","e","r","i","o","d","?">>,
      <<"C","L","A","R","I","F","I","C","A","T","I","O","N",":"," ",
        "c","l","a","r","i","f","i","c","a","t","i","o","n"," ","n","e","e","d","e","d">>,
      <<"S","E","L","E","C","T"," ","'","c","l","a","r","i","f","i","c","a","t","i","o","n","'">>,
      <<"S","E","L","E","C","T"," ","1",";">> }

\* what one call of the inference service does: raise, yield no event, or
\* return a text
LlmReplies ==
    {[kind |-> "raise", content |-> <<>>], [kind |-> "none", content |-> <<>>]}
    \cup {[kind |-> "text", content |-> t] : t \in ResponseTexts \cup {<<>>}}

----------------------------------------------------------------------------
(* The interactive conversation: main.py 99-167. *)

MARKER == <<"C","L","A","R","I","F","I","C","A","T","I","O","N",":">>
ClarificationWord == <<"c","l","a","r","i","f","i","c","a","t","i","o","n">>
warning_message ==
    <<"C","o","u","l","d"," ","n","o","t"," ","g","e","n","e","r","a","t","e"," ",
      "a"," ","r","e","s","p","o","n","s","e","."," ","P","l","e","a","s","e"," ",
      "t","r","y"," ","r","e","p","h","r","a","s","i","n","g"," ","y","o","u","r"," ",
      "q","u","e","s","t","i","o","n",".">>
ErrorPrefix ==
    <<"E","r","r","o","r"," ","r","u","n","n","i","n","g"," ","q","u","e","r","y",":"," ">>

\* the fixed instruction block with the schema in it, as two opaque parts
system_prompt == <<"instructions", "schema">>

\* what the user types into st.chat_input; the widget returns no empty text
UserInputs ==
    { <<"S","h","o","w"," ","t","r","a","n","s","a","c","t","i","o","n","s">>,
      <<"l","a","s","t"," ","7"," ","d","a","y","s">> }

Turn(r, c) == [role |-> r, content |-> c]

\* lines 116-118: at least two turns, and the last one mentions
\* "clarification" in any letter case
ClarificationPending(msgs) ==
    /\ Len(msgs) >= 2
    /\ Contains(Lower(msgs[Len(msgs)].content), ClarificationWord)

\* line 120 writing to the last turn instead of the one before it
MergeIntoLast(msgs, u) ==
    [msgs EXCEPT ![Len(msgs)].content = @ \o <<" ">> \o u]

\* line 120: messages[-2]["content"] += " " + user_input
MergeAnswer(msgs, u) ==
    [msgs EXCEPT ![Len(msgs) - 1].content = @ \o <<" ">> \o u]

\* lines 116-126: merge the input, or append it as a user turn
AcceptInput(msgs, u) ==
    IF ClarificationPending(msgs) THEN MergeAnswer(msgs, u)
    ELSE Append(msgs, Turn("user", u))

\* lines 131-137: the schema prompt, then one message per user or assistant turn
api_messages(msgs) ==
    LET known == SelectSeq(msgs, LAMBDA m : m.role \in {"user", "assistant"})
    IN <<[type |-> "SystemMessage", content |-> system_prompt]>>
       \o [i \in 1..Len(known) |->
             [type |-> IF known[i].role = "user" THEN "HumanMessage" ELSE "AIMessage",
              content |-> known[i].content]]

\* line 66: what llm.invoke receives
call_llm(state_messages) ==
    <<[type |-> "SystemMessage", content |-> system_prompt]>> \o state_messages

\* line 143: response.replace("CLARIFICATION:", "").strip()
ClarificationText(response) == Strip(Remove(response, MARKER))

\* lines 141-145 followed by the extraction and the query all the same
RespondQueryAfterClarification(msgs, res, reply, db) ==
    IF reply.kind = "raise"
    THEN [messages |-> msgs, results |-> res, call |-> NoCall,
          display |-> "exception"]
    ELSE IF reply.kind = "none" \/ reply.content = <<>>
    THEN [messages |-> Append(msgs, Turn("assistant", warning_message)),
          results |-> res, call |-> NoCall, display |-> "warning"]
    ELSE LET sql == ExtractSql(reply.content)
             c == run_query(sql, db)
         IN IF c.raised
            THEN [messages |-> Append(msgs, Turn("assistant", ErrorPrefix \o c.exc)),
                  results |-> res, call |-> c, display |-> "error"]
            ELSE [messages |-> Append(msgs, Turn("assistant", sql)),
                  results |-> Append(res, [sql |-> sql, data |-> c.ret[1]]),
                  call |-> c, display |-> "sql"]

\* lines 139-167: what the handler does with the reply of run_agent
Respond(msgs, res, reply, db) ==
    IF reply.kind = "raise"
    THEN \* nothing catches the exception of run_agent: the script run ends
         [messages |-> msgs, results |-> res, call |-> NoCall,
          display |-> "exception"]
    ELSE IF reply.kind = "none" \/ reply.content = <<>>
    THEN [messages |-> Append(msgs, Turn("assistant", warning_message)),
          results |-> res, call |-> NoCall, display |-> "warning"]
    ELSE IF StartsWith(reply.content, MARKER)
    THEN [messages |-> Append(msgs, Turn("assistant", ClarificationText(reply.content))),
          results |-> res, call |-> NoCall, display |-> "clarification"]
    ELSE LET sql == ExtractSql(reply.content)
             c == run_query(sql, db)
         IN IF c.raised
            THEN [messages |-> Append(msgs, Turn("assistant", ErrorPrefix \o c.exc)),
                  results |-> res, call |-> c, display |-> "error"]
            ELSE [messages |-> Append(msgs, Turn("assistant", sql)),
                  results |-> Append(res, [sql |-> sql, data |-> c.ret[1]]),
                  call |-> c, display |-> "sql"]

\* the inference call raised, or gave no response text
Failed(reply) == reply.kind \in {"raise", "none"} \/ reply.content = <<>>

\* the response text begins with the marker
Marked(reply) == reply.kind = "text" /\ StartsWith(reply.content, MARKER)

\* the record of a script run: how many inputs the session has handled, the
\* input, whether it was merged, what the service did (raise, none, text),
\* whether the call failed, whether its text began with the marker, the
\* same two for the run before, what was displayed, the logs as they were
\* before the run, and which branch of the handler stored the most recent
\* turn of the log, after the run and before it
NoTurn ==
    [n |-> 0, handled |-> FALSE, input |-> <<>>, merged |-> FALSE,
     reply |-> "none", failed |-> FALSE, marked |-> FALSE,
     prevFailed |-> FALSE, prevMarked |-> FALSE, display |-> "none",
     pre |-> <<>>, preResults |-> <<>>, origin |-> "none", preOrigin |-> "none"]

\* the branch that stored the last turn of the log once a run is over: the
\* response branch that appended a turn (lines 145, 155, 162, 167), or, when
\* run_agent raised, line 124 for an appended input and the earlier branch
\* for a merged one
LastTurnOrigin(before, wasMerged, display) ==
    IF display # "exception" THEN display
    ELSE IF wasMerged THEN before
    ELSE "user"

\* lines 113-167: one run of the script with a user input
OnUserInput(u, reply, db) ==
    /\ program = "app"
    /\ last.n < MaxInputs
    /\ \E msgs1 \in {AcceptInput(messages, u)} :
       \E out \in {Respond(msgs1, results, reply, db)} :
          /\ messages' = out.messages
          /\ results' = out.results
          /\ request' = call_llm(api_messages(msgs1))
          /\ call' = out.call
          /\ last' = [n |-> last.n + 1, handled |-> TRUE, input |-> u,
                      merged |-> Len(msgs1) = Len(messages),
                      reply |-> reply.kind,
                      failed |-> Failed(reply), marked |-> Marked(reply),
                      prevFailed |-> last.failed, prevMarked |-> last.marked,
                      display |-> out.display,
                      pre |-> messages, preResults |-> results,
                      origin |-> LastTurnOrigin(last.origin,
                                                Len(msgs1) = Len(messages),
                                                out.display),
                      preOrigin |-> last.origin]
    /\ UNCHANGED <<program, batchVars, extractorVars>>

\* lines 89-92: the Clear Chat History button
ClearChatHistory ==
    /\ program = "app"
    /\ messages' = <<>>
    /\ results' = <<>>
    /\ last' = NoTurn
    /\ request' = <<>>
    /\ call' = NoCall
    /\ UNCHANGED <<program, batchVars, extractorVars>>

----------------------------------------------------------------------------
(* The batch harness: test_executor.py. *)

DbPath == <<"b","a","n","k","i","n","g","_","s","y","s","t","e","m",".","d","b">>

\* line 96: the message for a database file found at neither path
NotFoundText ==
    <<"D","a","t","a","b","a","s","e"," ","n","o","t"," ","f","o","u","n","d"," ",
      "a","t",":"," ">> \o DbPath \o <<" ","o","r"," ">> \o DbPath

\* lines 100-106 without the try/except around connect and read_sql_query
TestExecutor_run_query_uncaught(query, exists, db) ==
    IF ~exists
    THEN [fn |-> "TestExecutor.run_query", opened |-> FALSE, closed |-> FALSE,
          raised |-> FALSE, exc |-> <<>>, ret |-> <<None, Some(NotFoundText)>>]
    ELSE [fn |-> "TestExecutor.run_query",
          opened |-> db.kind # "connect_error",
          closed |-> db.kind = "rows",
          raised |-> db.kind # "rows",
          exc |-> IF db.kind = "rows" THEN <<>> ELSE ExceptionText(query, db),
          ret |-> IF db.kind = "rows" THEN <<Some(db.rows), None>> ELSE <<None, None>>]

\* lines 77-106: (df, None), or (None, message) for a missing file or an
\* exception of connect or read_sql_query
TestExecutor_run_query(query, exists, db) ==
    IF ~exists
    THEN [fn |-> "TestExecutor.run_query", opened |-> FALSE, closed |-> FALSE,
          raised |-> FALSE, exc |-> <<>>, ret |-> <<None, Some(NotFoundText)>>]
    ELSE IF db.kind = "rows"
    THEN [fn |-> "TestExecutor.run_query", opened |-> TRUE, closed |-> TRUE,
          raised |-> FALSE, exc |-> <<>>, ret |-> <<Some(db.rows), None>>]
    ELSE [fn |-> "TestExecutor.run_query",
          opened |-> db.kind # "connect_error", closed |-> FALSE,
          raised |-> FALSE, exc |-> ExceptionText(query, db),
          ret |-> <<None, Some(ExceptionText(query, db))>>]

\* texts the inference service returns to the harness
BatchTexts ==
    { <<"C","L","A","R","I","F","I","C","A","T","I","O","N",":"," ",
        "w","h","i","c","h"," ","p","e","r","i","o","d","?">>,
      <<"S","E","L","E","C","T"," ","1",";">>,
      <<>> }

\* str(e) of an exception of llm.invoke
LlmExceptionText == <<"t","i","m","e","o","u","t">>

\* what llm.invoke does for the harness: raise, or return a message
BatchReplies ==
    {[kind |-> "raise", content |-> LlmExceptionText]}
    \cup {[kind |-> "text", content |-> t] : t \in BatchTexts}

\* lines 108-118: the content of the response, or the text of the exception
generate_sql(reply) ==
    IF reply.kind = "raise"
    THEN <<"E","r","r","o","r"," ","g","e","n","e","r","a","t","i","n","g"," ",
           "S","Q","L",":"," ">> \o reply.content
    ELSE reply.content

\* Python's truth value of an optional str: neither None nor ""
Truthy(opt) == opt # None /\ opt[1] # <<>>

\* lines 128-139 left out: every response is extracted and run
execute_test_case_no_clarification(test_id, query, reply, exists, db, elapsed) ==
    LET ai_response == generate_sql(reply)
        sql == ExtractSql(ai_response)
        c == TestExecutor_run_query(sql, exists, db)
    IN [result |->
          [test_id |-> test_id, query |-> query, generated_sql |-> sql,
           execution_status |-> IF Truthy(c.ret[2]) THEN "FAILED" ELSE "PASSED",
           execution_time |-> elapsed,
           result_count |-> IF Truthy(c.ret[2]) \/ c.ret[1] = None THEN 0 ELSE c.ret[1][1],
           error_message |-> IF Truthy(c.ret[2]) THEN c.ret[2] ELSE None,
           clarification_requested |-> FALSE],
        call |-> c]

\* lines 120-170: the TestResult of one test case, and the run_query call made
execute_test_case(test_id, query, reply, exists, db, elapsed) ==
    LET ai_response == generate_sql(reply)
    IN IF StartsWith(ai_response, MARKER)
       THEN [result |->
               [test_id |-> test_id, query |-> query, generated_sql |-> ai_response,
                execution_status |-> "CLARIFICATION_REQUESTED",
                execution_time |-> elapsed, result_count |-> 0,
                error_message |-> None, clarification_requested |-> TRUE],
             call |-> NoCall]
       ELSE LET sql == ExtractSql(ai_response)
                c == TestExecutor_run_query(sql, exists, db)
                result_df == c.ret[1]
                error == c.ret[2]
            IN IF Truthy(error)
               THEN [result |->
                       [test_id |-> test_id, query |-> query, generated_sql |-> sql,
                        execution_status |-> "FAILED",
                        execution_time |-> elapsed, result_count |-> 0,
                        error_message |-> error, clarification_requested |-> FALSE],
                     call |-> c]
               ELSE [result |->
                       [test_id |-> test_id, query |-> query, generated_sql |-> sql,
                        execution_status |-> "PASSED",
                        execution_time |-> elapsed,
                        result_count |-> IF result_df # None THEN result_df[1] ELSE 0,
                        error_message |-> None, clarification_requested |-> FALSE],
                     call |-> c]

\* Python's a / b on numbers: a quotient kept as a fraction, or ZeroDivisionError
Div(a, b) ==
    IF b = 0 THEN [error |-> TRUE, num |-> 0, den |-> 1]
    ELSE [error |-> FALSE, num |-> a, den |-> b]

\* Python's x * k for a quotient x
Times(x, k) == [x EXCEPT !.num = @ * k]

\* the number 0
Zero == [error |-> FALSE, num |-> 0, den |-> 1]

RECURSIVE SumTimes(_)
SumTimes(rs) == IF rs = <<>> THEN 0 ELSE Head(rs).execution_time + SumTimes(Tail(rs))

CountStatus(rs, status) ==
    Len(SelectSeq(rs, LAMBDA r : r.execution_status = status))

\* lines 177-193 without the `if total_tests > 0` guards
generate_summary_stats_unguarded(rs) ==
    LET total_tests == Len(rs)
        passed == CountStatus(rs, "PASSED")
        avg == Div(SumTimes(rs), total_tests)
        rate == Times(Div(passed, total_tests), 100)
    IN [raised |-> avg.error \/ rate.error,
        total_tests |-> total_tests,
        passed |-> passed,
        failed |-> CountStatus(rs, "FAILED"),
        clarification_requested |-> CountStatus(rs, "CLARIFICATION_REQUESTED"),
        pass_rate |-> rate,
        average_execution_time |-> avg]

\* lines 177-193
generate_summary_stats(rs) ==
    LET total_tests == Len(rs)
        passed == CountStatus(rs, "PASSED")
        failed == CountStatus(rs, "FAILED")
        clarification == CountStatus(rs, "CLARIFICATION_REQUESTED")
        avg_execution_time ==
            IF total_tests > 0 THEN Div(SumTimes(rs), total_tests) ELSE Zero
        pass_rate ==
            IF total_tests > 0 THEN Times(Div(passed, total_tests), 100) ELSE Zero
    IN [raised |-> avg_execution_time.error \/ pass_rate.error,
        total_tests |-> total_tests,
        passed |-> passed,
        failed |-> failed,
        clarification_requested |-> clarification,
        pass_rate |-> pass_rate,
        average_execution_time |-> avg_execution_time]

NoSummary ==
    [raised |-> FALSE, total_tests |-> -1, passed |-> 0, failed |-> 0,
     clarification_requested |-> 0, pass_rate |-> Zero,
     average_execution_time |-> Zero]

NoFinal == [passed |-> Zero, failed |-> Zero, clarification |-> Zero]

\* the natural-language queries of TestCases.xlsx
Queries ==
    << <<"L","i","s","t"," ","a","l","l"," ","b","r","a","n","c","h","e","s">>,
       <<"S","h","o","w"," ","t","r","a","n","s","a","c","t","i","o","n","s">> >>

\* the first n rows of the sheet
TestCaseRows(n) ==
    [i \in 1..n |-> [test_id |-> i, query |-> Queries[(i % 2) + 1]]]

\* lines 330-336: TestCases.xlsx is there and read, or main returns
LoadTestCases(found) ==
    /\ program = "batch"
    /\ pc = "start"
    /\ pc' = IF found THEN "connect" ELSE "done"
    /\ UNCHANGED <<program, test_cases, test_results, summary, final, call,
                   appVars, extractorVars>>

\* lines 347-358: the connectivity check; main returns when it fails
VerifyDatabase(exists, db) ==
    /\ program = "batch"
    /\ pc = "connect"
    /\ LET c == TestExecutor_run_query(<<"S","E","L","E","C","T"," ","1">>, exists, db)
       IN /\ call' = c
          /\ pc' = IF Truthy(c.ret[2]) THEN "done" ELSE "tests"
    /\ UNCHANGED <<program, test_cases, test_results, summary, final,
                   appVars, extractorVars>>

\* lines 365-371: the next row of the sheet is executed and its result appended
RunTestCase(reply, exists, db, elapsed) ==
    /\ program = "batch"
    /\ pc = "tests"
    /\ Len(test_results) < Len(test_cases)
    /\ LET row == test_cases[Len(test_results) + 1]
           out == execute_test_case(row.test_id, row.query, reply, exists, db, elapsed)
       IN /\ test_results' = Append(test_results, out.result)
          /\ call' = out.call
          /\ text' = generate_sql(reply)
    /\ UNCHANGED <<program, pc, test_cases, summary, final, appVars, extracted>>

\* lines 386-401: the reports; save_html_report takes the summary first
\* (line 213), then reads the Generated_SQL column of the detail frame
\* (line 218), which a frame built from no rows does not have
SaveReports ==
    /\ program = "batch"
    /\ pc = "tests"
    /\ Len(test_results) = Len(test_cases)
    /\ summary' = generate_summary_stats(test_results)
    /\ pc' = IF summary'.raised \/ test_results = <<>> THEN "crashed" ELSE "assess"
    /\ UNCHANGED <<program, test_cases, test_results, final, call,
                   appVars, extractorVars>>

\* lines 403-414: the final assessment divides the counts by total_tests
FinalAssessment ==
    /\ program = "batch"
    /\ pc = "assess"
    /\ summary' = generate_summary_stats(test_results)
    /\ LET s == summary'
           f == [passed |-> Times(Div(s.passed, s.total_tests), 100),
                 failed |-> Times(Div(s.failed, s.total_tests), 100),
                 clarification |->
                     Times(Div(s.clarification_requested, s.total_tests), 100)]
       IN /\ final' = f
          /\ pc' = IF s.raised \/ f.passed.error \/ f.failed.error \/ f.clarification.error
                   THEN "crashed" ELSE "done"
    /\ UNCHANGED <<program, test_cases, test_results, call, appVars, extractorVars>>

----------------------------------------------------------------------------
(* The SQL extraction on its own, applied to texts built from a few tokens. *)

Tokens ==
    { <<"S","E","L","E","C","T">>, <<"S","e","l","e","c","t">>,
      <<" ">>, <<";">>, <<"x">>, <<"\n">> }

\* the texts made of at most n tokens
RECURSIVE TokenTexts(_)
TokenTexts(n) ==
    IF n = 0 THEN {<<>>}
    ELSE LET shorter == TokenTexts(n - 1)
         IN shorter \cup {t \o k : t \in shorter, k \in Tokens}

\* the extraction applied to the text, then to its own output
ApplyExtraction ==
    /\ program = "extractor"
    /\ Len(extracted) < MaxApplications
    /\ extracted' = Append(extracted,
                           ExtractSql(IF extracted = <<>> THEN text
                                      ELSE extracted[Len(extracted)]))
    /\ UNCHANGED <<program, text, call, appVars, batchVars>>

----------------------------------------------------------------------------
(* Specifications. *)

\* the store's part in one script run of the app: a frame, which the app
\* only displays, or an exception of the statement (sqlite3.connect creates
\* a database file that is missing)
StoreFor(reply) ==
    {db \in DbOutcomes : db.rows = 0 /\ db.kind # "connect_error"}

\* the store's part in one call of the harness: nothing when the file is
\* missing, since the call returns before it connects
StoreWhen(exists) ==
    IF exists THEN DbOutcomes ELSE {db \in DbOutcomes : db.kind = "connect_error"}

\* wall-clock seconds a test case takes
ElapsedTimes == {0, 3}

InitApp ==
    /\ messages = <<>>
    /\ results = <<>>
    /\ request = <<>>
    /\ last = NoTurn

InitBatch ==
    /\ pc = "start"
    /\ test_results = <<>>
    /\ summary = NoSummary
    /\ final = NoFinal

InitExtractor ==
    /\ extracted = <<>>

\* either script is started: the Streamlit app with an empty session, or
\* the harness with a sheet of 0..MaxCases rows
Init ==
    /\ program \in {"app", "batch"}
    /\ InitApp
    /\ InitBatch
    /\ test_cases \in {TestCaseRows(n) : n \in 0..MaxCases}
    /\ (program = "app" => test_cases = <<>>)
    /\ call = NoCall
    /\ InitExtractor
    /\ text = <<>>

Next ==
    \/ \E u \in UserInputs, reply \in LlmReplies :
          \E db \in StoreFor(reply) : OnUserInput(u, reply, db)
    \/ ClearChatHistory
    \/ \E found \in BOOLEAN : LoadTestCases(found)
    \/ \E exists \in BOOLEAN : \E db \in StoreWhen(exists) :
          VerifyDatabase(exists, db)
    \/ \E reply \in BatchReplies, elapsed \in ElapsedTimes :
          \E exists \in BOOLEAN : \E db \in StoreWhen(exists) :
             RunTestCase(reply, exists, db, elapsed)
    \/ SaveReports
    \/ FinalAssessment

Spec == Init /\ [][Next]_vars

InitExtract ==
    /\ program = "extractor"
    /\ InitApp
    /\ InitBatch
    /\ test_cases = <<>>
    /\ call = NoCall
    /\ InitExtractor
    /\ text \in TokenTexts(MaxTokens)

NextExtract == ApplyExtraction

SpecExtract == InitExtract /\ [][NextExtract]_vars

----------------------------------------------------------------------------
(* Properties of the SQL extraction, under SpecExtract. *)

\* the first place where SELECT stands in t, in any letter case; 0 if nowhere
FirstSelect(t) ==
    LET hits == {i \in 1..(Len(t) - 5) :
                    Lower(SubSeq(t, i, i + 5)) = <<"s","e","l","e","c","t">>}
    IN IF hits = {} THEN 0 ELSE CHOOSE i \in hits : \A j \in hits : i <= j

\* s ends with a statement terminator or with whitespace
EndsLoose(s) == s # <<>> /\ (s[Len(s)] = ";" \/ s[Len(s)] \in Whitespace)

\* C7 as the spec states it: the extraction is idempotent, a second
\* application returns what the first returned.
C7_Idempotent ==
    \A i \in 1..(Len(extracted) - 1) : extracted[i + 1] = extracted[i]

\* C7, amended: a second application of the extraction returns the output of
\* the first exactly when that output ends neither with ';' nor with
\* whitespace; so the extraction is idempotent on every text whose extracted
\* statement has no second terminator and no whitespace left at its end.
C7_IdempotentUnlessLooseEnd ==
    \A i \in 1..(Len(extracted) - 1) :
        (extracted[i + 1] = extracted[i]) <=> ~EndsLoose(extracted[i])

\* C7 witness: a text with words before its SELECT and a terminator after
\* it, extracted twice with the same result.
C7_Witness ==
    /\ Len(extracted) >= 2
    /\ SearchSelect(text) > 1
    /\ EndsWith(text, <<";">>)
    /\ extracted[2] = extracted[1]
    /\ extracted[1] # text

\* C8: for a text that contains SELECT in any letter case, the output of the
\* extraction is a part of the text that starts at or after the first
\* occurrence of SELECT.
C8_StartsAtSelect ==
    (Len(extracted) >= 1 /\ FirstSelect(text) > 0) =>
        \E i \in FirstSelect(text)..(Len(text) + 1) :
            \E j \in (i - 1)..Len(text) : SubSeq(text, i, j) = extracted[1]

\* C9 as the spec states it: the output is empty only for the empty text.
C9_NonEmptyOutput ==
    (Len(extracted) >= 1 /\ text # <<>>) => extracted[1] # <<>>

\* C9, amended: the output of the extraction is empty exactly when the text
\* holds nothing but whitespace, or nothing but whitespace and one ';'.
C9_EmptyOnlyForBlank ==
    Len(extracted) >= 1 =>
        LET solid == {i \in 1..Len(text) : text[i] \notin Whitespace}
        IN (extracted[1] = <<>>) <=>
              \/ solid = {}
              \/ Cardinality(solid) = 1 /\ \A i \in solid : text[i] = ";"

\* C9 witness: a text of several characters whose extraction is empty.
C9_Witness ==
    /\ Len(extracted) >= 1
    /\ Len(text) >= 2
    /\ \E i \in 1..Len(text) : text[i] = ";"
    /\ extracted[1] = <<>>

----------------------------------------------------------------------------
(* Properties of the interactive conversation and of the harness, under Spec. *)

\* the last script run handled an input of the app
Handled == program = "app" /\ last.handled

\* the number of turns the last run had stored once its input was accepted
AcceptedLen == Len(last.pre) + (IF last.merged THEN 0 ELSE 1)

\* C1: when the response of one run began with the marker, the input of the
\* next run is merged into the original question and no user turn is
\* appended for it.
C1_ClarificationRoundTrip ==
    (Handled /\ last.prevMarked) =>
        /\ last.merged
        /\ Len(last.pre) >= 2
        /\ messages[Len(last.pre) - 1].content =
              last.pre[Len(last.pre) - 1].content \o <<" ">> \o last.input
        /\ \A i \in (Len(last.pre) + 1)..Len(messages) : messages[i].role # "user"

\* the turn log before the last run had at least two turns and ended with an
\* assistant turn that mentions a clarification (the marker, or the word in
\* any letter case, which is what line 118 looks for)
C2_Pending ==
    /\ Len(last.pre) >= 2
    /\ last.pre[Len(last.pre)].role = "assistant"
    /\ Contains(Lower(last.pre[Len(last.pre)].content), ClarificationWord)

\* C2: on such a log, handling input u sets the content of the second-to-last
\* turn to its old content, one space and u, appends no user turn, and leaves
\* every other stored turn as it was.
C2_MergeEffect ==
    (Handled /\ C2_Pending) =>
        LET k == Len(last.pre)
        IN /\ Len(messages) >= k
           /\ messages[k - 1].content =
                 last.pre[k - 1].content \o <<" ">> \o last.input
           /\ \A i \in 1..k : i # k - 1 => messages[i] = last.pre[i]
           /\ Len(messages) <= k + 1
           /\ \A i \in (k + 1)..Len(messages) : messages[i].role = "assistant"

\* C2 witness: an answer was merged into a question and the run went on to
\* append the assistant's next turn.
C2_Witness ==
    /\ Handled
    /\ C2_Pending
    /\ last.merged
    /\ Len(messages) = Len(last.pre) + 1
    /\ messages[Len(last.pre) - 1].role = "user"

\* C3: a response that begins with the marker leads to no call of the store.
\* In the app no query runs and the result log stays as it was; in the
\* harness run_query is not called and the TestResult has
\* clarification_requested and the status CLARIFICATION_REQUESTED.
C3_NoStoreCallOnClarification ==
    /\ (Handled /\ last.marked) =>
          /\ call = NoCall
          /\ results = last.preResults
    /\ (program = "batch" /\ test_results # <<>> /\ StartsWith(text, MARKER)) =>
          /\ call = NoCall
          /\ test_results[Len(test_results)].clarification_requested
          /\ test_results[Len(test_results)].execution_status = "CLARIFICATION_REQUESTED"

\* C3 witness: the harness, after a test case that ran a query, gets a
\* clarification for the next one.
C3_Witness ==
    /\ program = "batch"
    /\ Len(test_results) = 2
    /\ test_results[1].execution_status = "PASSED"
    /\ StartsWith(text, MARKER)
    /\ call = NoCall

\* C4: when the inference call raises or gives no response, the run ends
\* with the advisory to rephrase and appends no assistant turn, and the
\* input of the next run is handled as a new question, not merged.
C4_InferenceFailure ==
    /\ (Handled /\ last.failed) =>
          /\ last.display = "warning"
          /\ Len(messages) = AcceptedLen
    /\ (Handled /\ last.prevFailed) => ~last.merged

\* the outcome execute_test_case must give for the last test case, from the
\* response text and from what run_query returned
C5_Expected(r) ==
    IF StartsWith(text, MARKER)
    THEN /\ r.execution_status = "CLARIFICATION_REQUESTED"
         /\ r.clarification_requested
         /\ r.result_count = 0
    ELSE /\ call.fn = "TestExecutor.run_query"
         /\ IF call.ret[1] = None
            THEN /\ r.execution_status = "FAILED"
                 /\ r.error_message = call.ret[2]
                 /\ r.error_message # None
                 /\ r.error_message[1] # <<>>
                 /\ r.result_count = 0
                 /\ ~r.clarification_requested
            ELSE /\ r.execution_status = "PASSED"
                 /\ ~r.clarification_requested
                 /\ r.result_count = call.ret[1][1]

\* C5: every test case gets exactly one TestResult: CLARIFICATION_REQUESTED
\* (flag set, count 0) when the text begins with the marker; otherwise FAILED
\* (the store's message verbatim and non-empty, count 0) exactly when the
\* execution failed; otherwise PASSED with the flag clear and the number of
\* rows as result_count.
C5_Classification ==
    program = "batch" =>
        /\ Len(test_results) <= Len(test_cases)
        /\ summary.total_tests # -1 => Len(test_results) = Len(test_cases)
        /\ \A i \in 1..Len(test_results) :
              /\ test_results[i].test_id = test_cases[i].test_id
              /\ test_results[i].query = test_cases[i].query
              /\ test_results[i].execution_status \in
                    {"PASSED", "FAILED", "CLARIFICATION_REQUESTED"}
              /\ (test_results[i].execution_status = "CLARIFICATION_REQUESTED")
                    <=> test_results[i].clarification_requested
              /\ test_results[i].execution_status # "PASSED"
                    => test_results[i].result_count = 0
        /\ test_results # <<>> => C5_Expected(test_results[Len(test_results)])

\* C5 witness: a test case that returned rows, then one whose statement failed.
C5_Witness ==
    /\ program = "batch"
    /\ Len(test_results) = 2
    /\ test_results[1].execution_status = "PASSED"
    /\ test_results[1].result_count = 2
    /\ test_results[2].execution_status = "FAILED"
    /\ call.opened

\* what run_query may return in the harness: (rows, None) or (None, message)
C6_Pair(ret) ==
    /\ Len(ret) = 2
    /\ \/ ret[1] # None /\ ret[2] = None
       \/ ret[1] = None /\ ret[2] # None /\ ret[2][1] # <<>>

\* C6 as the spec states it: every run_query call returns its rows or its
\* error message, a pair being one of the two pairs, and raises nothing to
\* its caller.
C6_NeverRaises ==
    call # NoCall =>
        /\ ~call.raised
        /\ call.ret # None
        /\ Len(call.ret) = 2 => C6_Pair(call.ret)

\* C6, amended: run_query of the harness returns one of the two pairs and
\* never raises, be the file missing, the connection or the statement
\* failing; run_query of the app returns the frame or raises, and the input
\* handler catches what it raises and stores it as an error turn.
C6_PairInHarnessCaughtInApp ==
    /\ call.fn = "TestExecutor.run_query" => (~call.raised /\ C6_Pair(call.ret))
    /\ call.fn = "main.run_query" =>
          /\ call.raised <=> call.ret = None
          /\ call.raised =>
                /\ last.display = "error"
                /\ messages[Len(messages)] =
                      Turn("assistant", ErrorPrefix \o call.exc)
                /\ results = last.preResults

\* C6 witness: the harness got (None, message) for a statement that failed
\* on an open connection.
C6_Witness ==
    /\ program = "batch"
    /\ call.fn = "TestExecutor.run_query"
    /\ call.opened
    /\ call.ret[1] = None
    /\ test_results # <<>>

\* C10: the summary has pass_rate = passed / total * 100 with
\* 0 <= passed <= total, so a rate within [0, 100]; for no results it has
\* pass_rate 0 and average_execution_time 0, and nothing is divided by zero.
C10_Summary ==
    summary.total_tests # -1 =>
        LET passed == Cardinality({i \in 1..Len(test_results) :
                         test_results[i].execution_status = "PASSED"})
            total == Len(test_results)
            rate == summary.pass_rate
            avg == summary.average_execution_time
        IN /\ ~summary.raised
           /\ ~rate.error /\ ~avg.error
           /\ summary.total_tests = total
           /\ summary.passed = passed
           /\ 0 <= passed /\ passed <= total
           /\ rate.den > 0 /\ avg.den > 0
           /\ rate.num * total = passed * 100 * rate.den
           /\ 0 <= rate.num /\ rate.num <= 100 * rate.den
           /\ avg.num * total = SumTimes(test_results) * avg.den
           /\ total = 0 => (rate.num = 0 /\ avg.num = 0)

\* C10 witness: the summary of an empty result list.
C10_Witness ==
    /\ program = "batch"
    /\ test_results = <<>>
    /\ summary.total_tests = 0
    /\ summary.pass_rate.num = 0

\* C11: whenever the input of a run is merged, the turn whose content is
\* rewritten is a user turn, and no run changes the content of an assistant
\* turn that was stored before it.
C11_OnlyUserTurnsRewritten ==
    Handled =>
        /\ last.merged => last.pre[Len(last.pre) - 1].role = "user"
        /\ \A i \in 1..Len(last.pre) :
              last.pre[i].role = "assistant" => messages[i] = last.pre[i]

\* the log before the last run called for a new question: fewer than two
\* turns, or a most recent turn that no clarification response stored
C12_NewQuestionCase ==
    \/ Len(last.pre) < 2
    \/ last.preOrigin \in {"sql", "error", "warning", "user"}

\* C12: on such a log, handling input u appends a user turn with content u
\* and leaves the content of every turn stored before unchanged.
C12_NewQuestionAppends ==
    (Handled /\ C12_NewQuestionCase) =>
        LET k == Len(last.pre)
        IN /\ ~last.merged
           /\ Len(messages) > k
           /\ messages[k + 1] = Turn("user", last.input)
           /\ \A i \in 1..k : messages[i].content = last.pre[i].content

\* C13: every run_query call that opened a connection to the store, in the
\* app or in the harness, has closed it when the call ends, whether the
\* statement succeeded or failed.
C13_ConnectionClosed ==
    call.opened => call.closed

\* C14: the request of every script run is one system message, placed first,
\* followed by one message per stored turn, in stored order: a human
\* message for a user turn, an assistant message for an assistant turn,
\* each with the content of its turn.
C14_OneSystemMessageThenTurns ==
    Handled =>
        /\ Len(request) = AcceptedLen + 1
        /\ request[1] = [type |-> "SystemMessage", content |-> system_prompt]
        /\ \A i \in 2..Len(request) :
              /\ request[i].type # "SystemMessage"
              /\ i - 1 <= AcceptedLen =>
                    /\ request[i].content = messages[i - 1].content
                    /\ request[i].type =
                          (IF messages[i - 1].role = "user" THEN "HumanMessage"
                           ELSE "AIMessage")

\* C15: for every number of loaded test cases, zero included, main gets
\* through the reports and the final assessment: no step of it ends in an
\* error, and none of its quotients is a division by zero.
C15_BatchCompletes ==
    program = "batch" =>
        /\ pc # "crashed"
        /\ ~summary.raised
        /\ ~final.passed.error
        /\ ~final.failed.error
        /\ ~final.clarification.error

====
